---------------------------- MODULE Spec2Model ----------------------------
(***************************************************************************)
(* Model of scripts/read_from_excel.py: one run of main().                 *)
(*                                                                         *)
(* The run reads one spreadsheet cell chosen by the current month, builds  *)
(* a {limit, left, amount} record, serialises it, connects an MQTT client  *)
(* and blocks in the client's network loop; the on_connect callback        *)
(* publishes the text and disconnects.  pc is the position of the single   *)
(* flow of control (main, send_mqtt_message, or on_connect running inside  *)
(* the network loop).  The environment supplies the date, the sheet, the   *)
(* broker's answers, connection losses and the user's interrupts.          *)
(***************************************************************************)
EXTENDS Integers, Sequences, FiniteSets

\* ------------------------------------------------------------------ bounds

\* Largest number of rows / columns of the sheets that are tried.
MaxRows == 12
MaxCols == 6
\* Connection losses (each followed by the loop's reconnect) tried in a run.
MaxReconnects == 2

\* Cell contents that are tried: below, at and above the limit, and negative.
FuelValues == {-5, 0, 120, 210, 250}

\* ------------------------------------------------------- program constants

column_index == 5
limit == 210
mqtt_topic == "car/bmw/fuel_load"
file_path == "~/OneDrive/Gasolina.xlsx"

Months == 1..12

\* The reason codes a CONNACK carries: success, or a refusal by the broker.
ReasonCodes == {"Success", "Not authorized"}

is_failure(rc) == rc # "Success"

\* --------------------------------------------------------- pure functions

\* Faulty variant of row_index: the month itself is used as the row.
RowIndexOffByOne(m) == m

\* row_index = current_month - 1

row_index(m) == m - 1

\* Faulty variant of BuildMessage: the subtraction is the wrong way round.
BuildMessageSwapped(v) == [limit |-> limit, left |-> v - limit, amount |-> v]

\* message = {"limit": limit, "left": limit - value, "amount": value}
BuildMessage(v) == [limit |-> limit, left |-> limit - v, amount |-> v]

Digit == <<"0", "1", "2", "3", "4", "5", "6", "7", "8", "9">>

RECURSIVE NatToStr(_)
NatToStr(n) == IF n < 10 THEN Digit[n + 1]
               ELSE NatToStr(n \div 10) \o Digit[(n % 10) + 1]

\* The decimal text json.dumps writes for an integer.
IntToStr(i) == IF i < 0 THEN "-" \o NatToStr(-i) ELSE NatToStr(i)

\* json.dumps(message) with the default separators ", " and ": ", keys in
\* insertion order.
json_dumps(m) ==
    "{\"limit\": " \o IntToStr(m.limit) \o ", \"left\": " \o IntToStr(m.left)
        \o ", \"amount\": " \o IntToStr(m.amount) \o "}"

\* mqttc.user_data_set([mqtt_topic, json_message])
UserData(topic, text) == <<topic, text>>

\* ------------------------------------------------------------------ state

VARIABLES
    month,          \* datetime.now().month
    sheet,          \* the spreadsheet: [exists, rows, cols]
    pc,             \* position of the flow of control
    value,          \* the value read: <<>> before the read, then <<v>>
    serializable,   \* whether json.dumps accepts the cell's type
    cellsRead,      \* the <<row, column>> pairs read with iloc
    message,        \* the record built: <<>>, then <<record>>
    json_message,   \* the serialised record: <<>>, then <<text>>
    userdata,       \* the client's user data: <<>>, then <<topic, text>>
    state,          \* the client's connection state ("none": no client yet)
    reason_code,    \* reason code of the CONNACK delivered last ("none")
    calls,          \* the calls made on the client, in order
    published,      \* the <<topic, payload>> pairs passed to publish
    out,            \* the lines printed
    raised,         \* the exception raised in the run ("none")
    interruptedAt,  \* position at which the first interrupt arrived ("none")
    interrupts,     \* number of interrupts received
    reconnects      \* number of reconnects made by the network loop

vars == <<month, sheet, pc, value, serializable, cellsRead, message,
          json_message, userdata, state, reason_code, calls, published, out,
          raised, interruptedAt, interrupts, reconnects>>

Unset == <<>>

Notice == "Process interrupted by user"

\* Positions inside on_connect, which runs inside loop_forever.
CallbackPositions == {"cb_print_connected", "cb_publish", "cb_print_published",
                      "cb_disconnect", "cb_print_disconnected"}

\* Positions inside send_mqtt_message.
SendPositions == {"build", "client", "connect", "print_connecting", "loop"}
                    \cup CallbackPositions

\* Positions covered by main's try block (lines 46-48).
TryPositions == {"read", "print_read", "returned"} \cup SendPositions

\* Positions at which the process is running.
RunningPositions == {"main_path", "except"} \cup TryPositions

Failures == {"FileNotFoundError", "IndexError", "TypeError", "OSError"}

\* Faulty variant of Handles: a bare except clause.
HandlesEverything(e) == TRUE

\* except KeyboardInterrupt:

Handles(e) == e = "KeyboardInterrupt"

\* An exception e raised at the current position: main's handler takes it if
\* the position is inside the try block and the except clause matches, and
\* otherwise it leaves main.
Raise(e) ==
    /\ raised' = e
    /\ pc' = IF pc \in TryPositions /\ Handles(e) THEN "except" ELSE "fault"

Init ==
    /\ month \in Months
    /\ sheet \in {[exists |-> FALSE, rows |-> 0, cols |-> 0]}
                    \cup [exists : {TRUE}, rows : 0..MaxRows, cols : 0..MaxCols]
    /\ pc = "main_path"
    /\ value = Unset
    /\ serializable = TRUE
    /\ cellsRead = {}
    /\ message = Unset
    /\ json_message = Unset
    /\ userdata = Unset
    /\ state = "none"
    /\ reason_code = "none"
    /\ calls = <<>>
    /\ published = <<>>
    /\ out = <<>>
    /\ raised = "none"
    /\ interruptedAt = "none"
    /\ interrupts = 0
    /\ reconnects = 0

\* ------------------------------------------------------------------- main

\* main, lines 42-44: resolve the path and print it (before the try block).
main_path ==
    /\ pc = "main_path"
    /\ out' = Append(out, file_path)
    /\ pc' = "read"
    /\ UNCHANGED <<month, sheet, value, serializable, cellsRead, message,
                   json_message, userdata, state, reason_code, calls,
                   published, raised, interruptedAt, interrupts, reconnects>>

\* read_value_from_file, lines 8-14: read_excel fails on a missing file, iloc
\* on a row or column the sheet does not have; otherwise the one cell at
\* (row_index, column_index) is returned.  The cell's content and whether its
\* type is one json.dumps accepts are the sheet's.
read_value_from_file ==
    /\ pc = "read"
    /\ \/ /\ ~sheet.exists
          /\ Raise("FileNotFoundError")
          /\ UNCHANGED <<value, serializable, cellsRead>>
       \/ /\ sheet.exists
          /\ row_index(month) >= sheet.rows \/ column_index >= sheet.cols
          /\ Raise("IndexError")
          /\ UNCHANGED <<value, serializable, cellsRead>>
       \/ /\ sheet.exists
          /\ row_index(month) < sheet.rows
          /\ column_index < sheet.cols
          /\ \E v \in FuelValues, s \in BOOLEAN :
                /\ value' = <<v>>
                /\ serializable' = s
          /\ cellsRead' = cellsRead \cup {<<row_index(month), column_index>>}
          /\ pc' = "print_read"
          /\ UNCHANGED raised
    /\ UNCHANGED <<month, sheet, message, json_message, userdata, state,
                   reason_code, calls, published, out, interruptedAt,
                   interrupts, reconnects>>

\* main, line 47: print("Read: ", value)
print_read ==
    /\ pc = "print_read"
    /\ out' = Append(out, "Read:  " \o IntToStr(value[1]))
    /\ pc' = "build"
    /\ UNCHANGED <<month, sheet, value, serializable, cellsRead, message,
                   json_message, userdata, state, reason_code, calls,
                   published, raised, interruptedAt, interrupts, reconnects>>

\* main, line 48, return of send_mqtt_message: main returns.
main_return ==
    /\ pc = "returned"
    /\ pc' = "done"
    /\ UNCHANGED <<month, sheet, value, serializable, cellsRead, message,
                   json_message, userdata, state, reason_code, calls,
                   published, out, raised, interruptedAt, interrupts,
                   reconnects>>

\* Faulty variant of except_handler: the handler re-raises after the notice.
ExceptHandlerReraises ==
    /\ pc = "except"
    /\ out' = Append(out, Notice)
    /\ pc' = "fault"
    /\ UNCHANGED <<month, sheet, value, serializable, cellsRead, message,
                   json_message, userdata, state, reason_code, calls,
                   published, raised, interruptedAt, interrupts, reconnects>>

\* main, lines 49-50: the handler prints the notice; main returns.
except_handler ==
    /\ pc = "except"
    /\ out' = Append(out, Notice)
    /\ pc' = "done"
    /\ UNCHANGED <<month, sheet, value, serializable, cellsRead, message,
                   json_message, userdata, state, reason_code, calls,
                   published, raised, interruptedAt, interrupts, reconnects>>

\* ------------------------------------------------------ send_mqtt_message

\* send_mqtt_message, lines 24-30: the record is built, then serialised;
\* json.dumps raises TypeError on a value of a type it does not know.
build_message ==
    /\ pc = "build"
    /\ message' = <<BuildMessage(value[1])>>
    /\ \/ /\ serializable
          /\ json_message' = <<json_dumps(BuildMessage(value[1]))>>
          /\ pc' = "client"
          /\ UNCHANGED raised
       \/ /\ ~serializable
          /\ Raise("TypeError")
          /\ UNCHANGED json_message
    /\ UNCHANGED <<month, sheet, value, serializable, cellsRead, userdata,
                   state, reason_code, calls, published, out, interruptedAt,
                   interrupts, reconnects>>

\* send_mqtt_message, lines 31-36: the client is created, on_connect is
\* registered, the topic and the text become the client's user data.
create_client ==
    /\ pc = "client"
    /\ state' = "new"
    /\ userdata' = UserData(mqtt_topic, json_message[1])
    /\ pc' = "connect"
    /\ UNCHANGED <<month, sheet, value, serializable, cellsRead, message,
                   json_message, reason_code, calls, published, out, raised,
                   interruptedAt, interrupts, reconnects>>

\* send_mqtt_message, line 37: mqttc.connect(broker_address) opens the
\* connection, or raises OSError when the broker cannot be reached.
connect ==
    /\ pc = "connect"
    /\ calls' = Append(calls, "connect")
    /\ \/ /\ state' = "connecting"
          /\ pc' = "print_connecting"
          /\ UNCHANGED raised
       \/ /\ Raise("OSError")
          /\ UNCHANGED state
    /\ UNCHANGED <<month, sheet, value, serializable, cellsRead, message,
                   json_message, userdata, reason_code, published, out,
                   interruptedAt, interrupts, reconnects>>

\* send_mqtt_message, line 38: print("Connecting...")
print_connecting ==
    /\ pc = "print_connecting"
    /\ out' = Append(out, "Connecting...")
    /\ pc' = "loop"
    /\ UNCHANGED <<month, sheet, value, serializable, cellsRead, message,
                   json_message, userdata, state, reason_code, calls,
                   published, raised, interruptedAt, interrupts, reconnects>>

\* ----------------------------------------------- loop_forever (line 39)

\* The broker's CONNACK arrives: the loop records a successful connection and
\* calls on_connect with the reason code, whatever the reason code is.
LoopConnack(rc) ==
    /\ pc = "loop"
    /\ state = "connecting"
    /\ reason_code' = rc
    /\ state' = IF is_failure(rc) THEN state ELSE "connected"
    /\ pc' = "cb_print_connected"
    /\ UNCHANGED <<month, sheet, value, serializable, cellsRead, message,
                   json_message, userdata, calls, published, out, raised,
                   interruptedAt, interrupts, reconnects>>

\* The connection is lost although disconnect was not called: the loop
\* reconnects (a failed reconnect is retried inside the loop).
LoopConnectionLost ==
    /\ pc = "loop"
    /\ state \in {"connecting", "connected"}
    /\ reconnects < MaxReconnects
    /\ reconnects' = reconnects + 1
    /\ state' = "connecting"
    /\ UNCHANGED <<month, sheet, pc, value, serializable, cellsRead, message,
                   json_message, userdata, reason_code, calls, published, out,
                   raised, interruptedAt, interrupts>>

\* Faulty variant of LoopReturns: a loop call that does not block (loop_start,
\* or a single loop iteration) in place of loop_forever.
LoopReturnsAnytime == TRUE

\* Faulty variant of LoopReturns: a hand-written endless loop around the
\* client's loop step in place of loop_forever.
LoopReturnsNever == FALSE

\* loop_forever returns once disconnect has been called on the client.

LoopReturns == state = "disconnecting"

LoopReturn ==
    /\ pc = "loop"
    /\ LoopReturns
    /\ pc' = "returned"
    /\ UNCHANGED <<month, sheet, value, serializable, cellsRead, message,
                   json_message, userdata, state, reason_code, calls,
                   published, out, raised, interruptedAt, interrupts,
                   reconnects>>

\* ------------------------------------------------------------- on_connect

\* on_connect, line 17: print(f"Connected with result code {reason_code}")
cb_print_connected ==
    /\ pc = "cb_print_connected"
    /\ out' = Append(out, "Connected with result code " \o reason_code)
    /\ pc' = "cb_publish"
    /\ UNCHANGED <<month, sheet, value, serializable, cellsRead, message,
                   json_message, userdata, state, reason_code, calls,
                   published, raised, interruptedAt, interrupts, reconnects>>

\* Faulty variant of PublishArgs: payload and topic in the wrong order.
PublishArgsSwapped(ud) == <<ud[2], ud[1]>>

\* on_connect, line 18: client.publish(userdata[0], userdata[1])

PublishArgs(ud) == <<ud[1], ud[2]>>

cb_publish ==
    /\ pc = "cb_publish"
    /\ calls' = Append(calls, "publish")
    /\ published' = Append(published, PublishArgs(userdata))
    /\ pc' = "cb_print_published"
    /\ UNCHANGED <<month, sheet, value, serializable, cellsRead, message,
                   json_message, userdata, state, reason_code, out, raised,
                   interruptedAt, interrupts, reconnects>>

\* on_connect, line 19: print("Message published")
cb_print_published ==
    /\ pc = "cb_print_published"
    /\ out' = Append(out, "Message published")
    /\ pc' = "cb_disconnect"
    /\ UNCHANGED <<month, sheet, value, serializable, cellsRead, message,
                   json_message, userdata, state, reason_code, calls,
                   published, raised, interruptedAt, interrupts, reconnects>>

\* Faulty variant of cb_disconnect: on_connect does not disconnect.
DisconnectMissing ==
    /\ pc = "cb_disconnect"
    /\ pc' = "cb_print_disconnected"
    /\ UNCHANGED <<month, sheet, value, serializable, cellsRead, message,
                   json_message, userdata, state, reason_code, calls,
                   published, out, raised, interruptedAt, interrupts,
                   reconnects>>

\* on_connect, line 20: client.disconnect()
cb_disconnect ==
    /\ pc = "cb_disconnect"
    /\ calls' = Append(calls, "disconnect")
    /\ state' = "disconnecting"
    /\ pc' = "cb_print_disconnected"
    /\ UNCHANGED <<month, sheet, value, serializable, cellsRead, message,
                   json_message, userdata, reason_code, published, out,
                   raised, interruptedAt, interrupts, reconnects>>

\* on_connect, line 21: print("Disconnected"); the callback returns to the
\* network loop.
cb_print_disconnected ==
    /\ pc = "cb_print_disconnected"
    /\ out' = Append(out, "Disconnected")
    /\ pc' = "loop"
    /\ UNCHANGED <<month, sheet, value, serializable, cellsRead, message,
                   json_message, userdata, state, reason_code, calls,
                   published, raised, interruptedAt, interrupts, reconnects>>

\* ------------------------------------------------------------ environment

\* The user interrupts the process: KeyboardInterrupt is raised at the
\* current position, wherever that is.
Interrupt ==
    /\ pc \in RunningPositions
    /\ interrupts' = interrupts + 1
    /\ interruptedAt' = IF interruptedAt = "none" THEN pc ELSE interruptedAt
    /\ Raise("KeyboardInterrupt")
    /\ UNCHANGED <<month, sheet, value, serializable, cellsRead, message,
                   json_message, userdata, state, reason_code, calls,
                   published, out, reconnects>>

\* ---------------------------------------------------------- specification

\* The steps the program itself takes.
ProgramStep ==
    \/ main_path
    \/ read_value_from_file
    \/ print_read
    \/ build_message
    \/ create_client
    \/ connect
    \/ print_connecting
    \/ LoopReturn
    \/ cb_print_connected
    \/ cb_publish
    \/ cb_print_published
    \/ cb_disconnect
    \/ cb_print_disconnected
    \/ main_return
    \/ except_handler

Next ==
    \/ main_path
    \/ read_value_from_file
    \/ print_read
    \/ build_message
    \/ create_client
    \/ connect
    \/ print_connecting
    \/ \E rc \in ReasonCodes : LoopConnack(rc)
    \/ LoopConnectionLost
    \/ LoopReturn
    \/ cb_print_connected
    \/ cb_publish
    \/ cb_print_published
    \/ cb_disconnect
    \/ cb_print_disconnected
    \/ main_return
    \/ except_handler
    \/ Interrupt

Spec == Init /\ [][Next]_vars

\* The interpreter keeps running the program: a step of the program that is
\* possible is eventually taken.  Nothing is assumed of the environment.
FairSpec == Spec /\ WF_vars(ProgramStep)

\* ------------------------------------------------------------- properties

Range(seq) == {seq[i] : i \in 1..Len(seq)}

Count(seq, x) == Cardinality({i \in 1..Len(seq) : seq[i] = x})

\* A connection to the broker was opened: connect returned.
Opened == state \in {"connecting", "connected", "disconnecting"}

\* Positions at which the flow is inside loop_forever.
LoopPositions == {"loop"} \cup CallbackPositions

\* The text json.dumps gives for the record of fuel value v, written out.
PayloadOf(v) ==
    json_dumps([limit |-> 210, left |-> 210 - v, amount |-> v])

\* C1: the message is published at most once in a run, however many CONNACKs
\* and reconnects the network loop goes through; and once send_mqtt_message
\* has returned normally after a successful connection, it has been published
\* exactly once.
C1_PublishedOnce ==
    /\ Len(published) <= 1
    /\ Count(calls, "publish") = Len(published)
    /\ ( /\ pc = "returned" \/ (pc = "done" /\ raised = "none")
         /\ reason_code = "Success" )
       => Len(published) = 1

\* C1 witness: a run that lost its connection and reconnected, connected
\* successfully, and returned normally with one publish.
C1_Witness ==
    /\ pc = "done"
    /\ raised = "none"
    /\ reason_code = "Success"
    /\ reconnects > 0
    /\ Len(published) = 1

\* C2: when on_connect is delivered with a reason code that signals failure,
\* no publish call is made in that run.
C2_NoPublishOnRefusal ==
    (reason_code \in ReasonCodes /\ is_failure(reason_code))
       => (published = <<>> /\ Count(calls, "publish") = 0)

Phase ==
    CASE state \in {"none", "new", "disconnecting"} -> "Disconnected"
      [] state \in {"connecting", "connected"} /\ published # <<>> -> "Published"
      [] state = "connected" /\ published = <<>> -> "Connected"
      [] OTHER -> "Connecting"

PhaseOrder == {<<"Disconnected", "Connecting">>, <<"Connecting", "Connected">>,
               <<"Connected", "Published">>, <<"Published", "Disconnected">>}

\* C4: the connection state only moves along Disconnected -> Connecting ->
\* Connected -> Published -> Disconnected; publish is never called before the
\* connection is established; the client action after publish is disconnect;
\* and the final Disconnected state is terminal.
C4_Lifecycle ==
    /\ [][Phase' = Phase \/ <<Phase, Phase'>> \in PhaseOrder]_vars
    /\ [][Count(calls', "publish") > Count(calls, "publish")
            => state = "connected"]_vars
    /\ [][\A i \in 1..Len(calls') :
            (i > 1 /\ calls'[i - 1] = "publish") => calls'[i] = "disconnect"]_vars
    /\ [][state = "disconnecting"
            => (state' = "disconnecting" /\ calls' = calls)]_vars

\* C5: the record built has limit = 210, left = 210 - v and amount = v for
\* the fuel value v read, so left + amount = limit.
C5_Record ==
    message # <<>> =>
        /\ message[1].limit = 210
        /\ message[1].left = 210 - value[1]
        /\ message[1].amount = value[1]
        /\ message[1].left + message[1].amount = message[1].limit

\* C5 witness: a record built from a value above the limit; left is negative.
C5_Witness ==
    /\ message # <<>>
    /\ value = <<250>>
    /\ message[1].left = -40

\* C6: a failure other than a user interrupt leaves main as an unhandled fault:
\* the handler does not take it (no notice is printed), nothing is tried
\* again, and nothing is published; after a read failure no client exists and
\* no call was made on one.
C6_FailuresPropagate ==
    raised \in Failures =>
        /\ pc = "fault"
        /\ Notice \notin Range(out)
        /\ published = <<>>
        /\ Count(calls, "publish") = 0
        /\ Count(calls, "connect") <= 1
        /\ reconnects = 0
        /\ Count(out, file_path) = 1
        /\ raised \in {"FileNotFoundError", "IndexError"}
              => (state = "none" /\ calls = <<>> /\ cellsRead = {})
        /\ raised = "TypeError" => (state = "none" /\ calls = <<>>)
        /\ raised = "OSError" => (state = "new" /\ calls = <<"connect">>)

\* C6 witness: the broker is unreachable; connect raised and the run ended
\* with the fault, nothing published.
C6_Witness ==
    /\ raised = "OSError"
    /\ pc = "fault"
    /\ calls = <<"connect">>
    /\ published = <<>>

\* C7 as stated: an interrupt received at any point of the run is caught.
C7_InterruptAlwaysCaught ==
    interruptedAt # "none" =>
        \/ pc = "except"
        \/ pc = "done" /\ out[Len(out)] = Notice

\* C7 amended: an interrupt received at any point inside main's try block
\* (read, build, connect, network loop, on_connect) is caught; unless a second
\* interrupt arrives before the notice is printed, the notice is printed and
\* the process exits without re-raising; nothing is printed and no call on
\* the client is made after the notice.
C7_InterruptInTryCaught ==
    /\ [](interruptedAt \in TryPositions =>
            \/ pc = "except" /\ interrupts = 1 /\ Notice \notin Range(out)
            \/ /\ pc = "done"
               /\ interrupts = 1
               /\ out[Len(out)] = Notice
               /\ Count(out, Notice) = 1
            \/ pc = "fault" /\ interrupts = 2 /\ Notice \notin Range(out))
    /\ [][(Notice \in Range(out)) => (out' = out /\ calls' = calls)]_vars

\* C7 witness: an interrupt inside on_connect, after publish and before
\* disconnect, was caught and the notice is the last line printed.
C7_Witness ==
    /\ interruptedAt = "cb_disconnect"
    /\ pc = "done"
    /\ out[Len(out)] = Notice
    /\ calls = <<"connect", "publish">>

\* C8: for the month m, exactly one cell is read, at row m - 1 and column 5,
\* and the row index is within 0..11.
C8_CellRead ==
    /\ value = <<>> => cellsRead = {}
    /\ value # <<>> =>
        /\ cellsRead = {<<month - 1, 5>>}
        /\ month - 1 \in 0..11

\* C8 witness: December reads row 11.
C8_Witness ==
    /\ month = 12
    /\ value # <<>>
    /\ cellsRead = {<<11, 5>>}

\* C9: what is published is the topic "car/bmw/fuel_load" and the text of the
\* record of the value read in this run; the text exists before connect is
\* called; the user data does not change once set.
C9_PublishedPayload ==
    /\ [](\A i \in 1..Len(published) :
            published[i] = <<"car/bmw/fuel_load", PayloadOf(value[1])>>)
    /\ [](Count(calls, "connect") > 0 =>
            userdata = <<"car/bmw/fuel_load", PayloadOf(value[1])>>)
    /\ []((month = 3 /\ value = <<120>> /\ published # <<>>) =>
            /\ cellsRead = {<<2, 5>>}
            /\ published[1][2] = "{\"limit\": 210, \"left\": 90, \"amount\": 120}")
    /\ [][userdata # <<>> => userdata' = userdata]_vars

\* C9 witness: March, cell (2,5) = 120.
C9_Witness ==
    /\ month = 3
    /\ cellsRead = {<<2, 5>>}
    /\ value = <<120>>
    /\ published = << <<"car/bmw/fuel_load",
                        "{\"limit\": 210, \"left\": 90, \"amount\": 120}">> >>

\* C10: with the program's steps taken fairly and no interrupt, once on_connect
\* has been delivered the run reaches the disconnected state and
\* send_mqtt_message returns; and the flow leaves loop_forever only after
\* disconnect has been called (or by an interrupt).
C10_LoopEnds ==
    /\ (reason_code # "none") ~>
            (interrupts > 0 \/ (pc = "done" /\ state = "disconnecting"))
    /\ [][(pc \in LoopPositions /\ pc' \notin LoopPositions)
            => (state = "disconnecting" \/ interrupts' > interrupts)]_vars

\* C10 witness: on_connect was delivered, nobody interrupted, and the flow
\* left loop_forever with the client disconnected.
C10_Witness ==
    /\ reason_code # "none"
    /\ interrupts = 0
    /\ pc = "returned"
    /\ state = "disconnecting"

=============================================================================
